---------------------------- MODULE Spec2Model ----------------------------
(***************************************************************************)
(* YASK stencil compiler utility (src/compiler/compiler_main.cpp): the     *)
(* solution registry filled by the yc_solution_base constructor, the       *)
(* command-line parser parseOpts(), usage(), and main()'s output loop.     *)
(*                                                                         *)
(* The command line is read once, left to right, and no token is read      *)
(* twice; the model therefore draws argv[argi] at the moment the parser    *)
(* reads it (\E over the token sets below).  argc is an input of the same  *)
(* kind: every test the parser makes on it (argi < argc, argi + 1 >= argc, *)
(* argi + 2 >= argc) is about a larger index than the tests before, so its *)
(* outcome is drawn when the test is made, and only argi is kept.          *)
(* Strings are TLA+ strings; where the code looks at characters            *)
(* (argv[argi][0], atoi, std::map key order) the model goes through        *)
(* Chars, which spells each string of the token universe.                  *)
(*                                                                         *)
(* What format() does with the solution before it writes (dependency       *)
(* analysis, bundling, folding) is not in compiler_main.cpp; it is         *)
(* modelled from spec.md 4.2 and 4.4.  Spec runs main() from static        *)
(* initialization on; SpecBundle, SpecFold and SpecFlags run it from the   *)
(* state in which two solutions have registered, over command lines that   *)
(* steer the bundler, the folder and the boolean flags.                    *)
(***************************************************************************)
EXTENDS Integers, Sequences, FiniteSets, TLC

\* ------------------------------------------------------------- bounds
\* Largest argc (argv[0] included) of a modelled command line.
MaxArgc == 9
\* Largest argc of the command lines over all the boolean flags.
MaxFlagArgc == 6
\* Largest number of yc_solution_base constructions during static init.
MaxCtorCalls == 2

\* ------------------------------------------------------------ strings
\* The characters of each string of the token universe.
Chars(s) ==
    CASE s = "" -> <<>>
      [] s = "-" -> <<"-">>
      [] s = "-h" -> <<"-", "h">>
      [] s = "-help" -> <<"-", "h", "e", "l", "p">>
      [] s = "--help" -> <<"-", "-", "h", "e", "l", "p">>
      [] s = "-fus" -> <<"-", "f", "u", "s">>
      [] s = "-lus" -> <<"-", "l", "u", "s">>
      [] s = "-ul" -> <<"-", "u", "l">>
      [] s = "-no-ul" -> <<"-", "n", "o", "-", "u", "l">>
      [] s = "-opt-comb" -> <<"-", "o", "p", "t", "-", "c", "o", "m", "b">>
      [] s = "-no-opt-comb" -> <<"-", "n", "o", "-", "o", "p", "t", "-", "c", "o", "m", "b">>
      [] s = "-opt-cse" -> <<"-", "o", "p", "t", "-", "c", "s", "e">>
      [] s = "-no-opt-cse" -> <<"-", "n", "o", "-", "o", "p", "t", "-", "c", "s", "e">>
      [] s = "-opt-pair" -> <<"-", "o", "p", "t", "-", "p", "a", "i", "r">>
      [] s = "-no-opt-pair" -> <<"-", "n", "o", "-", "o", "p", "t", "-", "p", "a", "i", "r">>
      [] s = "-opt-cluster" -> <<"-", "o", "p", "t", "-", "c", "l", "u", "s", "t", "e", "r">>
      [] s = "-no-opt-cluster" -> <<"-", "n", "o", "-", "o", "p", "t", "-", "c", "l", "u", "s", "t", "e", "r">>
      [] s = "-find-deps" -> <<"-", "f", "i", "n", "d", "-", "d", "e", "p", "s">>
      [] s = "-no-find-deps" -> <<"-", "n", "o", "-", "f", "i", "n", "d", "-", "d", "e", "p", "s">>
      [] s = "-bundle-scratch" -> <<"-", "b", "u", "n", "d", "l", "e", "-", "s", "c", "r", "a", "t", "c", "h">>
      [] s = "-no-bundle-scratch" -> <<"-", "n", "o", "-", "b", "u", "n", "d", "l", "e", "-", "s", "c", "r", "a", "t", "c", "h">>
      [] s = "-print-eqs" -> <<"-", "p", "r", "i", "n", "t", "-", "e", "q", "s">>
      [] s = "-no-print-eqs" -> <<"-", "n", "o", "-", "p", "r", "i", "n", "t", "-", "e", "q", "s">>
      [] s = "-interleave-misc" -> <<"-", "i", "n", "t", "e", "r", "l", "e", "a", "v", "e", "-", "m", "i", "s", "c">>
      [] s = "-no-interleave-misc" -> <<"-", "n", "o", "-", "i", "n", "t", "e", "r", "l", "e", "a", "v", "e", "-", "m", "i", "s", "c">>
      [] s = "-stencil" -> <<"-", "s", "t", "e", "n", "c", "i", "l">>
      [] s = "-vars" -> <<"-", "v", "a", "r", "s">>
      [] s = "-eq-bundles" -> <<"-", "e", "q", "-", "b", "u", "n", "d", "l", "e", "s">>
      [] s = "-step-dim" -> <<"-", "s", "t", "e", "p", "-", "d", "i", "m">>
      [] s = "-domain-dims" -> <<"-", "d", "o", "m", "a", "i", "n", "-", "d", "i", "m", "s">>
      [] s = "-fold" -> <<"-", "f", "o", "l", "d">>
      [] s = "-cluster" -> <<"-", "c", "l", "u", "s", "t", "e", "r">>
      [] s = "-p" -> <<"-", "p">>
      [] s = "-max-es" -> <<"-", "m", "a", "x", "-", "e", "s">>
      [] s = "-min-es" -> <<"-", "m", "i", "n", "-", "e", "s">>
      [] s = "-radius" -> <<"-", "r", "a", "d", "i", "u", "s">>
      [] s = "-elem-bytes" -> <<"-", "e", "l", "e", "m", "-", "b", "y", "t", "e", "s">>
      [] s = "-ps" -> <<"-", "p", "s">>
      [] s = "-halo" -> <<"-", "h", "a", "l", "o">>
      [] s = "-step-alloc" -> <<"-", "s", "t", "e", "p", "-", "a", "l", "l", "o", "c">>
      [] s = "-zz" -> <<"-", "z", "z">>
      [] s = "awp" -> <<"a", "w", "p">>
      [] s = "iso" -> <<"i", "s", "o">>
      [] s = "nope" -> <<"n", "o", "p", "e">>
      [] s = "cpp" -> <<"c", "p", "p">>
      [] s = "avx" -> <<"a", "v", "x">>
      [] s = "xyz" -> <<"x", "y", "z">>
      [] s = "a.hpp" -> <<"a", ".", "h", "p", "p">>
      [] s = "b.hpp" -> <<"b", ".", "h", "p", "p">>
      [] s = "2" -> <<"2">>
      [] s = "3" -> <<"3">>
      [] s = "4" -> <<"4">>
      [] s = "8" -> <<"8">>
      [] s = "-2" -> <<"-", "2">>
      [] s = "12" -> <<"1", "2">>
      [] s = "x=4" -> <<"x", "=", "4">>
      [] s = "x,y" -> <<"x", ",", "y">>
      [] s = "t" -> <<"t">>
      [] s = "b.r" -> <<"b", ".", "r">>
      [] s = "bar_x" -> <<"b", "a", "r", "_", "x">>
      [] s = "bar_y" -> <<"b", "a", "r", "_", "y">>
      [] s = "ber_x" -> <<"b", "e", "r", "_", "x">>
      [] s = "ber_y" -> <<"b", "e", "r", "_", "y">>
      [] s = "g_$&=b[aeiou]r" -> <<"g", "_", "$", "&", "=", "b", "[", "a", "e", "i", "o", "u", "]", "r">>
      [] s = "a=bar,b=b[aeiou]r" -> <<"a", "=", "b", "a", "r", ",", "b", "=", "b", "[", "a", "e", "i", "o", "u", "]", "r">>
      [] s = ".*" -> <<".", "*">>
      [] s = "stencil_bundle" -> <<"s", "t", "e", "n", "c", "i", "l", "_", "b", "u", "n", "d", "l", "e">>
      [] s = "pseudo" -> <<"p", "s", "e", "u", "d", "o">>
      [] s = "avx2" -> <<"a", "v", "x", "2">>
      [] s = "avx512" -> <<"a", "v", "x", "5", "1", "2">>
      [] s = "knc" -> <<"k", "n", "c">>
      [] s = "x=4,y=4" -> <<"x", "=", "4", ",", "y", "=", "4">>
      [] s = "x=-2,y=-4" -> <<"x", "=", "-", "2", ",", "y", "=", "-", "4">>
      [] s = "x=3" -> <<"x", "=", "3">>
      [] s = "y=2" -> <<"y", "=", "2">>
      [] s = "y,x" -> <<"y", ",", "x">>
      [] s = "x" -> <<"x">>
      [] s = "y" -> <<"y">>
      [] s = "b[aeiou]r" -> <<"b", "[", "a", "e", "i", "o", "u", "]", "r">>

\* The character codes std::string compares by.
Ascii(c) ==
    CASE c = "$" -> 36
      [] c = "&" -> 38
      [] c = "*" -> 42
      [] c = "+" -> 43
      [] c = "," -> 44
      [] c = "-" -> 45
      [] c = "." -> 46
      [] c = "0" -> 48
      [] c = "1" -> 49
      [] c = "2" -> 50
      [] c = "3" -> 51
      [] c = "4" -> 52
      [] c = "5" -> 53
      [] c = "6" -> 54
      [] c = "7" -> 55
      [] c = "8" -> 56
      [] c = "9" -> 57
      [] c = "=" -> 61
      [] c = "[" -> 91
      [] c = "]" -> 93
      [] c = "_" -> 95
      [] c = "a" -> 97
      [] c = "b" -> 98
      [] c = "c" -> 99
      [] c = "d" -> 100
      [] c = "e" -> 101
      [] c = "f" -> 102
      [] c = "g" -> 103
      [] c = "h" -> 104
      [] c = "i" -> 105
      [] c = "k" -> 107
      [] c = "l" -> 108
      [] c = "m" -> 109
      [] c = "n" -> 110
      [] c = "o" -> 111
      [] c = "p" -> 112
      [] c = "q" -> 113
      [] c = "r" -> 114
      [] c = "s" -> 115
      [] c = "t" -> 116
      [] c = "u" -> 117
      [] c = "v" -> 118
      [] c = "w" -> 119
      [] c = "x" -> 120
      [] c = "y" -> 121
      [] c = "z" -> 122

\* argv[argi][0] == '-' && argv[argi][1]  (line 225): an option token.
IsOptionToken(s) ==
    LET cs == Chars(s) IN Len(cs) >= 2 /\ cs[1] = "-"

Digits == {"0", "1", "2", "3", "4", "5", "6", "7", "8", "9"}

RECURSIVE atoiDigits(_, _, _)
atoiDigits(cs, i, acc) ==
    IF i > Len(cs) \/ cs[i] \notin Digits
    THEN acc
    ELSE atoiDigits(cs, i + 1, acc * 10 + (Ascii(cs[i]) - Ascii("0")))

\* atoi(argop.c_str()): optional sign, then the leading decimal digits;
\* 0 when there are none.
atoiChars(cs) ==
    IF cs = <<>> THEN 0
    ELSE IF cs[1] = "-" THEN 0 - atoiDigits(cs, 2, 0)
    ELSE IF cs[1] = "+" THEN atoiDigits(cs, 2, 0)
    ELSE atoiDigits(cs, 1, 0)

atoi(s) == atoiChars(Chars(s))

RECURSIVE seqLess(_, _, _)
seqLess(a, b, i) ==
    IF i > Len(a) THEN i <= Len(b)
    ELSE IF i > Len(b) THEN FALSE
    ELSE IF Ascii(a[i]) # Ascii(b[i]) THEN Ascii(a[i]) < Ascii(b[i])
    ELSE seqLess(a, b, i + 1)

\* std::greater<std::string>: the reverse of the key order.
StrGreater(a, b) == seqLess(Chars(b), Chars(a), 1)

\* std::less<std::string>: the key order of std::map<string, ...>.
StrLess(a, b) == seqLess(Chars(a), Chars(b), 1)

\* The keys of a std::map in iteration order (ascending).
RECURSIVE SortedKeys(_)
SortedKeys(S) ==
    IF S = {} THEN <<>>
    ELSE LET m == CHOOSE x \in S : \A y \in S \ {x} : StrLess(x, y)
         IN <<m>> \o SortedKeys(S \ {m})

\* ---------------------------------------------------------- ArgParser
RECURSIVE splitChars(_, _, _, _)
splitChars(cs, sep, i, cur) ==
    IF i > Len(cs) THEN <<cur>>
    ELSE IF cs[i] = sep THEN <<cur>> \o splitChars(cs, sep, i + 1, <<>>)
    ELSE splitChars(cs, sep, i + 1, Append(cur, cs[i]))

\* ArgParser::parseList: the comma-separated names of the value, in order.
parseList(s) ==
    IF Chars(s) = <<>> THEN <<>> ELSE splitChars(Chars(s), ",", 1, <<>>)

\* One "key=value" item of ArgParser::parseKeyValuePairs.
HasEq(item) == \E i \in 1..Len(item) : item[i] = "="

KeyOf(item) ==
    LET p == CHOOSE i \in 1..Len(item) :
                 item[i] = "=" /\ \A j \in 1..(i - 1) : item[j] # "="
    IN SubSeq(item, 1, p - 1)

ValueOf(item) ==
    LET p == CHOOSE i \in 1..Len(item) :
                 item[i] = "=" /\ \A j \in 1..(i - 1) : item[j] # "="
    IN SubSeq(item, p + 1, Len(item))

\* ArgParser::parseKeyValuePairs accepts the value: every item has an '='.
keyValuePairsOk(s) == \A i \in 1..Len(parseList(s)) : HasEq(parseList(s)[i])

\* Tuple::addDimBack(key, size): set the dim's value, appending a new dim.
addDimBack(tuple, key, size) ==
    IF \E i \in 1..Len(tuple) : tuple[i].dim = key
    THEN [i \in 1..Len(tuple) |->
             IF tuple[i].dim = key THEN [dim |-> key, val |-> size] ELSE tuple[i]]
    ELSE Append(tuple, [dim |-> key, val |-> size])

\* The lambda of lines 311-319 applied to each item of the value, in order.
RECURSIVE addPairs(_, _, _)
addPairs(tuple, items, i) ==
    IF i > Len(items) THEN tuple
    ELSE addPairs(addDimBack(tuple, KeyOf(items[i]), atoiChars(ValueOf(items[i]))),
                  items, i + 1)

\* ----------------------------------------------------------- settings
\* CompilerSettings as default-constructed (spec 6.2); 0 for halo and
\* step_alloc stands for "automatic".
DefaultSettings ==
    [_firstInner |-> FALSE, _allowUnalignedLoads |-> FALSE,
     _doComb |-> TRUE, _doCse |-> TRUE, _doPairs |-> TRUE, _doOptCluster |-> TRUE,
     _findDeps |-> TRUE, _bundleScratch |-> FALSE, _printEqs |-> FALSE,
     _innerMisc |-> FALSE,
     _varRegex |-> ".*", _eqBundleTargets |-> "", _stepDim |-> "",
     _eq_bundle_basename_default |-> "stencil_bundle",
     _domainDims |-> <<>>, _foldOptions |-> <<>>, _clusterOptions |-> <<>>,
     _maxExprSize |-> 50, _minExprSize |-> 2, _elem_bytes |-> 4,
     _haloSize |-> 0, _stepAlloc |-> 0]

\* Options without a value (lines 232-271).
NoValueOpts ==
    {"-fus", "-lus", "-ul", "-no-ul", "-opt-comb", "-no-opt-comb",
     "-opt-cse", "-no-opt-cse", "-opt-pair", "-no-opt-pair",
     "-opt-cluster", "-no-opt-cluster", "-find-deps", "-no-find-deps",
     "-bundle-scratch", "-no-bundle-scratch", "-print-eqs", "-no-print-eqs",
     "-interleave-misc", "-no-interleave-misc"}

HelpOpts == {"-h", "-help", "--help"}

\* The boolean flag pairs of usage(): the option that sets the setting,
\* the option that clears it, and the setting.
FlagPairs ==
    {[on |-> "-fus", off |-> "-lus", field |-> "_firstInner"],
     [on |-> "-ul", off |-> "-no-ul", field |-> "_allowUnalignedLoads"],
     [on |-> "-opt-comb", off |-> "-no-opt-comb", field |-> "_doComb"],
     [on |-> "-opt-cse", off |-> "-no-opt-cse", field |-> "_doCse"],
     [on |-> "-opt-pair", off |-> "-no-opt-pair", field |-> "_doPairs"],
     [on |-> "-opt-cluster", off |-> "-no-opt-cluster", field |-> "_doOptCluster"],
     [on |-> "-find-deps", off |-> "-no-find-deps", field |-> "_findDeps"],
     [on |-> "-bundle-scratch", off |-> "-no-bundle-scratch", field |-> "_bundleScratch"],
     [on |-> "-print-eqs", off |-> "-no-print-eqs", field |-> "_printEqs"],
     [on |-> "-interleave-misc", off |-> "-no-interleave-misc", field |-> "_innerMisc"]}

PairOf(o) == CHOOSE p \in FlagPairs : o \in {p.on, p.off}

\* The chain of lines 232-271 with one branch assigning the setting of
\* the branch before it.
ApplyFlagTypo(s, o) ==
    IF o = "-no-opt-pair" THEN [s EXCEPT !._doCse = FALSE]
    ELSE [s EXCEPT ![PairOf(o).field] = (o = PairOf(o).on)]


\* The settings after an option without a value.
ApplyFlag(s, o) ==
    CASE o = "-fus" -> [s EXCEPT !._firstInner = TRUE]
      [] o = "-lus" -> [s EXCEPT !._firstInner = FALSE]
      [] o = "-ul" -> [s EXCEPT !._allowUnalignedLoads = TRUE]
      [] o = "-no-ul" -> [s EXCEPT !._allowUnalignedLoads = FALSE]
      [] o = "-opt-comb" -> [s EXCEPT !._doComb = TRUE]
      [] o = "-no-opt-comb" -> [s EXCEPT !._doComb = FALSE]
      [] o = "-opt-cse" -> [s EXCEPT !._doCse = TRUE]
      [] o = "-no-opt-cse" -> [s EXCEPT !._doCse = FALSE]
      [] o = "-opt-pair" -> [s EXCEPT !._doPairs = TRUE]
      [] o = "-no-opt-pair" -> [s EXCEPT !._doPairs = FALSE]
      [] o = "-opt-cluster" -> [s EXCEPT !._doOptCluster = TRUE]
      [] o = "-no-opt-cluster" -> [s EXCEPT !._doOptCluster = FALSE]
      [] o = "-find-deps" -> [s EXCEPT !._findDeps = TRUE]
      [] o = "-no-find-deps" -> [s EXCEPT !._findDeps = FALSE]
      [] o = "-bundle-scratch" -> [s EXCEPT !._bundleScratch = TRUE]
      [] o = "-no-bundle-scratch" -> [s EXCEPT !._bundleScratch = FALSE]
      [] o = "-print-eqs" -> [s EXCEPT !._printEqs = TRUE]
      [] o = "-no-print-eqs" -> [s EXCEPT !._printEqs = FALSE]
      [] o = "-interleave-misc" -> [s EXCEPT !._innerMisc = TRUE]
      [] o = "-no-interleave-misc" -> [s EXCEPT !._innerMisc = FALSE]

\* Options with one string value stored as given (lines 286-293).
StringOpts == {"-stencil", "-vars", "-eq-bundles", "-step-dim"}
\* Options whose value ArgParser splits (lines 294-320).
ListOpts == {"-domain-dims", "-fold", "-cluster"}
\* Options with an int value (lines 342-358).
IntOpts == {"-max-es", "-min-es", "-radius", "-elem-bytes", "-ps", "-halo", "-step-alloc"}

\* The settings after a string- or list-valued option with value a.
ApplyStringOpt(s, o, a) ==
    CASE o = "-vars" -> [s EXCEPT !._varRegex = a]
      [] o = "-eq-bundles" -> [s EXCEPT !._eqBundleTargets = a]
      [] o = "-step-dim" -> [s EXCEPT !._stepDim = a]
      [] o = "-domain-dims" -> [s EXCEPT !._domainDims = parseList(a)]
      [] o = "-fold" ->
            [s EXCEPT !._foldOptions = addPairs(s._foldOptions, parseList(a), 1)]
      [] o = "-cluster" ->
            [s EXCEPT !._clusterOptions = addPairs(s._clusterOptions, parseList(a), 1)]
      [] OTHER -> s

\* The settings after an int-valued option with value val.
ApplyIntOpt(s, o, val) ==
    CASE o = "-max-es" -> [s EXCEPT !._maxExprSize = val]
      [] o = "-min-es" -> [s EXCEPT !._minExprSize = val]
      [] o = "-elem-bytes" -> [s EXCEPT !._elem_bytes = val]
      [] o = "-halo" -> [s EXCEPT !._haloSize = val]
      [] o = "-step-alloc" -> [s EXCEPT !._stepAlloc = val]
      [] OTHER -> s

\* -------------------------------------------------------------- state
\* ----------------------------------------------------------- analyzer
\* The dependency analyzer and the folder run inside format(); their
\* code is not part of the modelled sources, so they follow spec.md
\* 4.2 and 4.4.  Scratch grids and halo enlargement (4.2 step 4) are
\* outside the modelled equations.

\* A constant or a symbolic offset in the domain dimension.
ConstOff(c) == [sym |-> FALSE, c |-> c]
SymOff == [sym |-> TRUE, c |-> 0]

\* A grid point: a var, its step offset from t and its domain offset.
Point(var, step, off) == [var |-> var, step |-> step, off |-> off]

\* Possible overlap of two domain offsets: constants overlap when
\* equal, anything symbolic is assumed to overlap.
PossiblyOverlap(a, b) == a.sym \/ b.sym \/ a.c = b.c

\* e1 depends on e2: e1 reads a grid e2 writes, in the same step (a
\* read at another step is a cross-step edge) at a possibly-equal
\* domain offset.
Depends(e1, e2) ==
    \E r \in e1.reads :
        /\ r.var = e2.lhs.var
        /\ r.step = e2.lhs.step
        /\ PossiblyOverlap(r.off, e2.lhs.off)

\* A conflict graph that looks at the reads of the new equation only.
ConflictOneWay(findDeps, e1, e2) ==
    IF findDeps THEN Depends(e1, e2) ELSE TRUE

\* The conflict graph of the first-fit colouring.  Without find_deps no
\* dependencies are computed and no two equations share a bundle.
Conflict(findDeps, e1, e2) ==
    IF findDeps THEN Depends(e1, e2) \/ Depends(e2, e1) ELSE TRUE

\* One element of a regex: the characters it accepts (<<>> for '.'),
\* and whether a '*' follows it.
RegexElem(any, set, star) == [any |-> any, set |-> set, star |-> star]

\* The index of the first "]" at or after i (0 when there is none).
RECURSIVE classEnd(_, _)
classEnd(cs, i) ==
    IF i > Len(cs) THEN 0
    ELSE IF cs[i] = "]" THEN i ELSE classEnd(cs, i + 1)

\* The elements of the regex spelled by cs[i..]: literals, '.', a
\* bracket class, each optionally starred.
RECURSIVE parseRegex(_, _)
parseRegex(cs, i) ==
    IF i > Len(cs) THEN <<>>
    ELSE LET close == IF cs[i] = "[" THEN classEnd(cs, i + 1) ELSE 0
             last == IF close > 0 THEN close ELSE i
             star == last < Len(cs) /\ cs[last + 1] = "*"
             set == IF close > 0 THEN {cs[j] : j \in (i + 1)..(close - 1)}
                    ELSE {cs[i]}
         IN <<RegexElem(close = 0 /\ cs[i] = ".", set, star)>>
              \o parseRegex(cs, IF star THEN last + 2 ELSE last + 1)

Accepts(el, c) == el.any \/ c \in el.set

\* The positions reachable from positions P by matching element el.
StepElem(el, P, text) ==
    IF el.star
    THEN {q \in 1..(Len(text) + 1) :
            \E p \in P : p <= q /\ \A j \in p..(q - 1) : Accepts(el, text[j])}
    ELSE {p + 1 : p \in {q \in P : q <= Len(text) /\ Accepts(el, text[q])}}

\* The positions after a match of re[k..] begun at one of P.
RECURSIVE matchEnds(_, _, _, _)
matchEnds(re, k, P, text) ==
    IF k > Len(re) THEN P
    ELSE matchEnds(re, k + 1, StepElem(re[k], P, text), text)

SetMax(S) == CHOOSE m \in S : \A n \in S : n <= m
SetMin(S) == CHOOSE m \in S : \A n \in S : m <= n

\* regex_match: re has to match the whole of text.
regexMatch(re, text) ==
    IF Len(text) + 1 \in matchEnds(re, 1, {1}, text)
    THEN <<1, Len(text) + 1>> ELSE <<>>

\* regex_search: the leftmost, longest match of re in text as
\* <<start, end>> (end exclusive), or <<>> when nothing matches.
regexSearch(re, text) ==
    LET starts == {s \in 1..(Len(text) + 1) : matchEnds(re, 1, {s}, text) # {}}
    IN IF starts = {} THEN <<>>
       ELSE LET s == SetMin(starts)
            IN <<s, SetMax(matchEnds(re, 1, {s}, text))>>

\* The template with every "$&" replaced by the matched text.
RECURSIVE expandTemplate(_, _, _)
expandTemplate(tc, i, matched) ==
    IF i > Len(tc) THEN <<>>
    ELSE IF tc[i] = "$" /\ i < Len(tc) /\ tc[i + 1] = "&"
         THEN matched \o expandTemplate(tc, i + 2, matched)
         ELSE <<tc[i]>> \o expandTemplate(tc, i + 1, matched)

\* The base bundle name of a var: the template of the first target
\* (items[i..], each "template=regex") whose regex is found in the
\* name, expanded; else the default base name.
RECURSIVE baseName(_, _, _, _)
baseName(items, i, name, default) ==
    IF i > Len(items) THEN default
    ELSE LET m == regexSearch(parseRegex(ValueOf(items[i]), 1), name)
         IN IF m = <<>> THEN baseName(items, i + 1, name, default)
            ELSE expandTemplate(KeyOf(items[i]), 1,
                                SubSeq(name, m[1], m[2] - 1))

\* Step 1: the equations whose written var matches var_filter.
RECURSIVE filterEqs(_, _, _)
filterEqs(eqs, i, re) ==
    IF i > Len(eqs) THEN <<>>
    ELSE (IF regexSearch(re, Chars(eqs[i].lhs.var)) # <<>> THEN <<eqs[i]>> ELSE <<>>)
           \o filterEqs(eqs, i + 1, re)

\* The first bundle at or after b of the given base that holds no
\* equation in conflict with e (0 when there is none).
RECURSIVE firstFit(_, _, _, _, _)
firstFit(bs, b, base, e, findDeps) ==
    IF b > Len(bs) THEN 0
    ELSE IF /\ bs[b].base = base
            /\ \A k \in 1..Len(bs[b].eqs) : ~Conflict(findDeps, e, bs[b].eqs[k])
         THEN b
         ELSE firstFit(bs, b + 1, base, e, findDeps)

\* Equation e joins bundle b of bs, or (b = 0) opens the next numbered
\* bundle of its base name.
addToBundle(bs, e, base, b) ==
    IF b > 0
    THEN [bs EXCEPT ![b].eqs = Append(@, e)]
    ELSE Append(bs, [base |-> base,
                     index |-> Cardinality({k \in 1..Len(bs) : bs[k].base = base}),
                     eqs |-> <<e>>])

\* Equation e of the given base name takes its place in bs.
placeEq(bs, e, base, findDeps) ==
    addToBundle(bs, e, base, firstFit(bs, 1, base, e, findDeps))

\* Steps 2 and 3: each equation, in declaration order, joins the first
\* bundle of its base name that fits, or opens the next numbered one.
RECURSIVE assignBundles(_, _, _, _, _, _)
assignBundles(bs, eqs, i, items, default, findDeps) ==
    IF i > Len(eqs) THEN bs
    ELSE assignBundles(placeEq(bs, eqs[i],
                               baseName(items, 1, Chars(eqs[i].lhs.var), default),
                               findDeps),
                       eqs, i + 1, items, default, findDeps)

\* Bundle b2 depends on bundle b1: an inter-bundle edge.
BundleDepends(b2, b1) ==
    \E i \in 1..Len(b2.eqs), j \in 1..Len(b1.eqs) : Depends(b2.eqs[i], b1.eqs[j])

\* Ties of the topological sort: by base name, then by index.
BundleLess(a, b) ==
    \/ seqLess(a.base, b.base, 1)
    \/ a.base = b.base /\ a.index < b.index

\* Every bundle left counts as ready, whatever it depends on.
ReadyAll(bs, left, findDeps) == left

\* The bundles of `left` that depend on no other bundle of `left`
\* (without find_deps no inter-bundle edge is known).
Ready(bs, left, findDeps) ==
    {b \in left :
        \A c \in left \ {b} : ~(findDeps /\ BundleDepends(bs[b], bs[c]))}

\* Step 5: repeatedly take the least ready bundle; the sort stops short
\* when the bundles left form a cycle.
RECURSIVE topoSort(_, _, _)
topoSort(bs, left, findDeps) ==
    LET ready == Ready(bs, left, findDeps)
    IN IF ready = {} THEN <<>>
       ELSE LET b == CHOOSE r \in ready :
                       \A q \in ready \ {r} : BundleLess(bs[r], bs[q])
            IN <<bs[b]>> \o topoSort(bs, left \ {b}, findDeps)

\* The outcome of the sort: a sort that stops short found a cycle.
sorted(bs, order) ==
    IF Len(order) < Len(bs)
    THEN [err |-> "DependencyCycleError", bundles |-> <<>>]
    ELSE [err |-> "", bundles |-> order]

\* Step 5 on the bundles bs.
orderBundles(bs, findDeps) == sorted(bs, topoSort(bs, 1..Len(bs), findDeps))

\* The analyzer: the ordered bundles, or the error it fails with.
analyze(eqs, s) ==
    IF ~keyValuePairsOk(s._eqBundleTargets)
    THEN [err |-> "UnknownBundleTarget", bundles |-> <<>>]
    ELSE orderBundles(assignBundles(<<>>,
                                    filterEqs(eqs, 1, parseRegex(Chars(s._varRegex), 1)),
                                    1, parseList(s._eqBundleTargets),
                                    Chars(s._eq_bundle_basename_default),
                                    s._findDeps),
                      s._findDeps)

\* ------------------------------------------------------------- folder
\* The bytes of a HW SIMD vector of a print format: 256-bit for avx and
\* avx2, 512-bit for avx512 and knc (usage, lines 198-201); 0 for the
\* formats without an explicit vector length.
VectorBytes(type) ==
    CASE type \in {"avx", "avx2"} -> 32
      [] type \in {"avx512", "knc"} -> 64
      [] OTHER -> 0

\* The lane count the format requires of the fold (0: none required).
Lanes(type, elemBytes) ==
    IF elemBytes > 0 THEN VectorBytes(type) \div elemBytes ELSE 0

\* The domain dimensions of the vars of the modelled equations, in the
\* order the DSL code declares them.
VarDims == <<<<"x">>, <<"y">>>>

\* dims followed by those of more it does not hold yet.
RECURSIVE appendUnique(_, _, _)
appendUnique(dims, more, i) ==
    IF i > Len(more) THEN dims
    ELSE appendUnique(IF \E j \in 1..Len(dims) : dims[j] = more[i]
                      THEN dims ELSE Append(dims, more[i]),
                      more, i + 1)

\* The domain dimensions in declaration order: those named with
\* -domain-dims, then those met in the DSL code (usage, lines 116-123).
domainDims(s, eqs) ==
    appendUnique(appendUnique(<<>>, s._domainDims, 1),
                 IF eqs = <<>> THEN <<>> ELSE VarDims, 1)

\* The fold tuple over the domain dimensions: the length given with
\* -fold, 1 for a dimension without one.
foldOver(dims, foldOptions) ==
    [i \in 1..Len(dims) |->
        IF \E k \in 1..Len(foldOptions) : foldOptions[k].dim = dims[i]
        THEN LET k == CHOOSE k \in 1..Len(foldOptions) : foldOptions[k].dim = dims[i]
             IN [dim |-> dims[i], val |-> foldOptions[k].val]
        ELSE [dim |-> dims[i], val |-> 1]]

RECURSIVE product(_, _)
product(tuple, i) ==
    IF i > Len(tuple) THEN 1 ELSE tuple[i].val * product(tuple, i + 1)

RECURSIVE IsPow2(_)
IsPow2(n) == n = 1 \/ (n > 1 /\ n % 2 = 0 /\ IsPow2(n \div 2))

\* The folder's adjustment (spec.md 4.4): a fold whose product is the
\* lane count stands; otherwise the last-declared domain dimension
\* absorbs the difference, every length staying a power of two >= 1,
\* and the folder fails when it cannot.
adjustFold(fold, lanes) ==
    IF lanes = 0 \/ product(fold, 1) = lanes
    THEN [err |-> "", fold |-> fold]
    ELSE LET n == Len(fold)
             rest == product(SubSeq(fold, 1, n - 1), 1)
             valid == /\ n > 0
                      /\ \A i \in 1..(n - 1) : IsPow2(fold[i].val)
                      /\ lanes % rest = 0
                      /\ IsPow2(lanes \div rest)
         IN IF valid
            THEN [err |-> "", fold |-> [fold EXCEPT ![n].val = lanes \div rest]]
            ELSE [err |-> "FoldMismatch", fold |-> fold]

\* The analysis a and the fold f together: the first failure wins.
compiled(a, f) ==
    IF a.err # "" THEN [err |-> a.err, bundles |-> <<>>, fold |-> <<>>]
    ELSE IF f.err # "" THEN [err |-> f.err, bundles |-> <<>>, fold |-> <<>>]
    ELSE [err |-> "", bundles |-> a.bundles, fold |-> f.fold]

\* What format(type) computes from the frozen solution before it
\* writes: the ordered bundles and the fold, or the failing error.
compile(eqs, s, type) ==
    compiled(analyze(eqs, s),
             adjustFold(foldOver(domainDims(s, eqs), s._foldOptions),
                        Lanes(type, s._elem_bytes)))

\* ---------------------------------------------------------- equations
\* The equations a modelled define() can make: each writes its var at
\* step t+1, offset x, and reads the points listed.
Equation(var, reads) == [lhs |-> Point(var, 1, ConstOff(0)), reads |-> reads]

\* bar_x(t+1,x) from bar_x(t,x): cross-step reads only.
EqBarX == Equation("bar_x", {Point("bar_x", 0, ConstOff(0))})
\* bar_y(t+1,x) from bar_x(t+1,x): depends on EqBarX.
EqBarY == Equation("bar_y", {Point("bar_x", 1, ConstOff(0))})
\* bar_y(t+1,x) from bar_y(t,x).
EqBarY0 == Equation("bar_y", {Point("bar_y", 0, ConstOff(0))})
\* ber_x(t+1,x) from bar_y(t+1,x+1): same step, another constant offset.
EqBerX == Equation("ber_x", {Point("bar_y", 1, ConstOff(1))})
\* ber_x(t+1,x) from bar_y(t+1,x): depends on the writers of bar_y.
EqBerX1 == Equation("ber_x", {Point("bar_y", 1, ConstOff(0))})
\* ber_y(t+1,x) from ber_x(t+1,i) at a symbolic i: depends on the
\* writers of ber_x.
EqBerY == Equation("ber_y", {Point("ber_x", 1, SymOff)})
\* ber_y(t+1,x) from ber_y(t,x).
EqBerY0 == Equation("ber_y", {Point("ber_y", 0, ConstOff(0))})

EqPool == {EqBarX, EqBarY, EqBarY0, EqBerX, EqBerX1, EqBerY, EqBerY0}

\* Largest number of equations of a modelled solution.
MaxEqs == 4

\* The lists of at most n equations of the pool, each var updated by
\* one equation at most.
EqLists(n) ==
    UNION {{l \in [1..k -> EqPool] :
              \A i, j \in 1..k : l[i].lhs.var = l[j].lhs.var => i = j} :
           k \in 0..n}

VARIABLES
    pc,            \* "static_init", "parse", "resolve", "define", "emit",
                   \* "format", "done" (main returned 0), "exited" (exit(1))
    stencils,      \* StencilMap: solution name -> yc_solution_base object
    solns,         \* objects made by factory.new_solution: object -> name
    solnRadius,    \* _radius of each yc_solution_with_radius_base object
    ctorCalls,     \* yc_solution_base constructions so far (object ids)
    ctorThrew,     \* the last construction threw 'already defined'
    argi,          \* parseOpts' loop index (argc: see the head comment)
    opt,           \* parseOpts' local 'opt' ("" before the first option)
    settings,      \* CompilerSettings settings
    outfiles,      \* map<string, string> outfiles: format -> file name
    solutionName, radius, vlenForStats, stencilSoln,
    solnSettings,  \* settings held by each solution (setSettings)
    defineLog,     \* each define() call: its object, radius and settings
    sinks,         \* outputs made by yask_output_factory, in order
    iter,          \* position of main's loop over outfiles
    eqs,           \* the equations define() put into the solution, in order
    emitted,       \* what each finished format() call wrote: its type,
                   \* the ordered bundles and the fold
    printArgs,     \* the "-p FORMAT FILE" pairs of argv read so far
    stdout, stderr, exitStatus

vars == <<pc, stencils, solns, solnRadius, ctorCalls, ctorThrew, argi, opt,
          settings, outfiles, solutionName, radius, vlenForStats, stencilSoln,
          solnSettings, defineLog, sinks, iter, eqs, emitted, printArgs, stdout,
          stderr, exitStatus>>

registryVars == <<stencils, solns, solnRadius, ctorCalls, ctorThrew>>
optVars == <<settings, outfiles, solutionName, radius, vlenForStats, printArgs>>
runVars == <<stencilSoln, solnSettings, defineLog, sinks, iter, eqs, emitted>>

\* Names under which solutions register; "iso" is a
\* yc_solution_with_radius_base, "awp" a plain yc_solution_base.
SolnNames == {"awp", "iso"}
IsRadiusSoln(name) == name = "iso"
\* The radius a radius-parameterized solution is constructed with.
DefaultRadius == 1

\* The prefix main() puts before an exception's message (line 448).
ToolName == "YASK Stencil Compiler:"

\* Format types format() knows (usage, lines 197-205).
FormatTypes ==
    {"cpp", "avx", "avx2", "avx512", "knc", "pseudo", "pseudo-long", "dot", "dot-lite"}

\* The command lines modelled: the tokens at option position, the values
\* following each option that takes one, and the file names after -p FORMAT.
ArgTokens ==
    {"-h", "-stencil", "-p", "-radius", "-elem-bytes", "-fus", "-zz", "cpp", "-"}

ArgValues(o) ==
    CASE o = "-stencil" -> {"awp", "iso", "nope"}
      [] o = "-p" -> {"cpp", "avx", "xyz"}
      [] o = "-radius" -> {"2", "-2", "-h"}
      [] o = "-elem-bytes" -> {"8", "3"}
      [] OTHER -> {"2"}

FileTokens == {"a.hpp", "-"}

Init ==
    /\ pc = "static_init"
    /\ stencils = <<>>
    /\ solns = <<>>
    /\ solnRadius = <<>>
    /\ ctorCalls = 0
    /\ ctorThrew = FALSE
    /\ argi = 0
    /\ opt = ""
    /\ settings = DefaultSettings
    /\ outfiles = <<>>
    /\ solutionName = ""
    /\ radius = -1
    /\ vlenForStats = 0
    /\ stencilSoln = 0
    /\ solnSettings = <<>>
    /\ defineLog = <<>>
    /\ sinks = <<>>
    /\ iter = 0
    /\ eqs = <<>>
    /\ emitted = <<>>
    /\ printArgs = <<>>
    /\ stdout = <<>>
    /\ stderr = <<>>
    /\ exitStatus = -1

\* The constructor without its stencils.count(name) test: a second
\* solution of the same name replaces the registered one.
ConstructNoCheck(name) ==
    /\ pc = "static_init"
    /\ ctorCalls < MaxCtorCalls
    /\ ctorCalls' = ctorCalls + 1
    /\ ctorThrew' = FALSE
    /\ solns' = solns @@ ((ctorCalls + 1) :> name)
    /\ stencils' = [n \in DOMAIN stencils \cup {name} |->
                        IF n = name THEN ctorCalls + 1 ELSE stencils[n]]
    /\ solnRadius' = IF IsRadiusSoln(name)
                     THEN solnRadius @@ ((ctorCalls + 1) :> DefaultRadius)
                     ELSE solnRadius
    /\ UNCHANGED <<pc, argi, opt, optVars, runVars, stdout, stderr, exitStatus>>

\* yc_solution_base::yc_solution_base(name), run for a global solution
\* object before main(); the new object is number ctorCalls + 1.
Construct(name) ==
    /\ pc = "static_init"
    /\ ctorCalls < MaxCtorCalls
    /\ ctorCalls' = ctorCalls + 1
    /\ IF name \in DOMAIN stencils
       THEN /\ ctorThrew' = TRUE
            /\ UNCHANGED <<stencils, solns, solnRadius>>
       ELSE /\ ctorThrew' = FALSE
            /\ solns' = solns @@ ((ctorCalls + 1) :> name)
            /\ stencils' = stencils @@ (name :> (ctorCalls + 1))
            /\ solnRadius' = IF IsRadiusSoln(name)
                             THEN solnRadius @@ ((ctorCalls + 1) :> DefaultRadius)
                             ELSE solnRadius
    /\ UNCHANGED <<pc, argi, opt, optVars, runVars, stdout, stderr, exitStatus>>

\* usage() whose exit(1) is missing: the help text is printed and the
\* caller goes on.
usageReturns(out) ==
    /\ stdout' = Append(out, "help")
    /\ UNCHANGED <<exitStatus, pc>>

\* usage(cmd) when stdout holds out: the help text on stdout, then exit(1).
usageOn(out) ==
    /\ stdout' = Append(out, "help")
    /\ exitStatus' = 1
    /\ pc' = "exited"

usage == usageOn(stdout)

\* An error line on cerr followed by usage().
errorUsage(msg) ==
    /\ stderr' = Append(stderr, msg)
    /\ usage

\* The catch block without its exit(1): main goes on to return 0.
caughtReturns0(msg) ==
    /\ stderr' = Append(stderr, <<ToolName, msg>>)
    /\ exitStatus' = 0
    /\ pc' = "done"
    /\ UNCHANGED stdout

\* The catch block printing the bare message.
caughtNoPrefix(msg) ==
    /\ stderr' = Append(stderr, <<"Error:", msg>>)
    /\ exitStatus' = 1
    /\ pc' = "exited"
    /\ UNCHANGED stdout

\* catch (yask_exception& e) in main: the message on cerr, exit(1).
caught(msg) ==
    /\ stderr' = Append(stderr, <<ToolName, msg>>)
    /\ exitStatus' = 1
    /\ pc' = "exited"
    /\ UNCHANGED stdout

\* main() up to the head of parseOpts' loop; noArgs is argc <= 1.
Main(noArgs) ==
    /\ pc = "static_init"
    /\ IF noArgs
       THEN /\ usageOn(Append(stdout, "banner"))
            /\ UNCHANGED argi
       ELSE /\ stdout' = Append(stdout, "banner")
            /\ argi' = 1
            /\ pc' = "parse"
            /\ UNCHANGED exitStatus
    /\ UNCHANGED <<registryVars, opt, optVars, runVars, stderr>>

\* The for-loop's argi++ and its test argi < argc, after an option that
\* used k tokens; more is the outcome of the test.
LoopNext(A, k) ==
    /\ argi' = argi + k
    /\ \E more \in BOOLEAN :
         /\ more => argi + k < A.maxArgc
         /\ pc' = IF more THEN "parse" ELSE "resolve"

\* argv[argi] is not an option (no leading '-', or "-" alone): the loop
\* breaks with argi < argc, which is the error of lines 371-374.
ParseBreak(A) ==
    \E t \in A.tokens :
        /\ pc = "parse"
        /\ ~IsOptionToken(t)
        /\ errorUsage(<<"Error:", "unrecognized parameter", t>>)
        /\ UNCHANGED <<registryVars, argi, opt, optVars, runVars>>

\* -h, -help, --help (lines 229-230).
ParseHelp(A) ==
    \E t \in A.tokens :
        /\ pc = "parse"
        /\ IsOptionToken(t)
        /\ t \in HelpOpts
        /\ opt' = t
        /\ usage
        /\ UNCHANGED <<registryVars, argi, optVars, runVars, stderr>>

\* An option without a value (lines 232-271).
ParseFlag(A) ==
    \E t \in A.tokens :
        /\ pc = "parse"
        /\ IsOptionToken(t)
        /\ t \in NoValueOpts
        /\ opt' = t
        /\ settings' = ApplyFlag(settings, t)
        /\ LoopNext(A, 1)
        /\ UNCHANGED <<registryVars, outfiles, solutionName, radius,
                       vlenForStats, printArgs, runVars, stdout, stderr, exitStatus>>

\* Any other option as the last token (lines 279-282).
ParseValueMissing(A) ==
    \E t \in A.tokens :
        /\ pc = "parse"
        /\ IsOptionToken(t)
        /\ t \notin HelpOpts \cup NoValueOpts
        /\ opt' = t
        /\ errorUsage(<<"Error:", "value missing or bad option", t>>)
        /\ UNCHANGED <<registryVars, argi, optVars, runVars>>

\* An option with one value, argop = argv[++argi] (lines 283-320, 340-358).
\* A -fold or -cluster value ArgParser rejects throws out of parseOpts.
ParseValueOpt(A) ==
    \E t \in A.tokens : \E argop \in A.values[t] :
        /\ pc = "parse"
        /\ IsOptionToken(t)
        /\ t \in StringOpts \cup ListOpts \cup IntOpts
        /\ argi + 1 < A.maxArgc
        /\ opt' = t
        /\ IF t \in {"-fold", "-cluster"} /\ ~keyValuePairsOk(argop)
           THEN /\ caught("Error: no equal sign in key-value pair")
                /\ UNCHANGED <<argi, optVars>>
           ELSE /\ solutionName' = IF t = "-stencil" THEN argop ELSE solutionName
                /\ settings' = IF t \in IntOpts
                               THEN ApplyIntOpt(settings, t, atoi(argop))
                               ELSE ApplyStringOpt(settings, t, argop)
                /\ radius' = IF t = "-radius" THEN atoi(argop) ELSE radius
                /\ vlenForStats' = IF t = "-ps" THEN atoi(argop) ELSE vlenForStats
                /\ LoopNext(A, 2)
                /\ UNCHANGED <<outfiles, printArgs, stdout, stderr, exitStatus>>
        /\ UNCHANGED <<registryVars, runVars>>

\* The FORMAT values of the command lines A, when they use -p at all.
PrintValues(A) == IF "-p" \in A.tokens THEN A.values["-p"] ELSE {}

\* -p FORMAT FILE (lines 323-333).
ParsePrint(A) ==
    \E argop \in PrintValues(A) : \E argop2 \in A.files :
        /\ pc = "parse"
        /\ argi + 2 < A.maxArgc
        /\ opt' = "-p"
        /\ outfiles' = [k \in DOMAIN outfiles \cup {argop} |->
                            IF k = argop THEN argop2 ELSE outfiles[k]]
        /\ printArgs' = Append(printArgs, <<argop, argop2>>)
        /\ LoopNext(A, 3)
        /\ UNCHANGED <<registryVars, settings, solutionName, radius,
                       vlenForStats, runVars, stdout, stderr, exitStatus>>

\* -p FORMAT as the last two tokens (lines 326-330).
ParsePrintNoFile(A) ==
    \E argop \in PrintValues(A) :
        /\ pc = "parse"
        /\ argi + 1 < A.maxArgc
        /\ opt' = "-p"
        /\ errorUsage(<<"Error:", "filename missing after", "-p">>)
        /\ UNCHANGED <<registryVars, argi, optVars, runVars>>

\* An option none of the tests recognizes, followed by a token (lines 362-365).
ParseUnknownOpt(A) ==
    \E t \in A.tokens :
        /\ pc = "parse"
        /\ IsOptionToken(t)
        /\ t \notin HelpOpts \cup NoValueOpts \cup StringOpts \cup ListOpts
                    \cup IntOpts \cup {"-p"}
        /\ argi + 1 < A.maxArgc
        /\ opt' = t
        /\ errorUsage(<<"Error:", "option not recognized", t>>)
        /\ UNCHANGED <<registryVars, argi, optVars, runVars>>

\* Lines 375-378.
NoSolution ==
    /\ pc = "resolve"
    /\ solutionName = ""
    /\ errorUsage(<<"Error:", "solution not specified">>)
    /\ UNCHANGED <<registryVars, argi, opt, optVars, runVars>>

\* Lines 380-385.
UnknownStencil ==
    /\ pc = "resolve"
    /\ solutionName # ""
    /\ solutionName \notin DOMAIN stencils
    /\ errorUsage(<<"Error:", "unknown stencil solution", solutionName>>)
    /\ UNCHANGED <<registryVars, argi, opt, optVars, runVars>>

\* yc_solution_with_radius_base::set_radius(r) on object s: the solution
\* decides whether it takes the radius (rOk), and stores it when it does.
set_radius(s, r, rOk) == IF rOk THEN [solnRadius EXCEPT ![s] = r] ELSE solnRadius

\* A lookup that takes the first entry of the map whatever the name.
findStencilFirst(name) == stencils[SortedKeys(DOMAIN stencils)[1]]

\* stencils.find(solutionName)->second (lines 381, 386).
findStencil(name) == stencils[name]

\* Settings copied into the solution before the options were parsed.
setSettingsUnparsed(s) == solnSettings @@ (s :> DefaultSettings)

\* sp->setSettings(settings) on solution object s (line 411).
setSettings(s) == solnSettings @@ (s :> settings)

\* Lines 386-411 for a registered solution: select it, set its radius when
\* it has one and -radius gave one >= 0, copy the settings into it.
SelectSolution ==
    /\ pc = "resolve"
    /\ solutionName # ""
    /\ solutionName \in DOMAIN stencils
    /\ LET s == findStencil(solutionName) IN
       /\ stencilSoln' = s
       /\ IF s \in DOMAIN solnRadius /\ radius >= 0
          THEN \E rOk \in BOOLEAN :
                 /\ solnRadius' = set_radius(s, radius, rOk)
                 /\ IF rOk
                    THEN /\ stdout' = stdout \o <<"name", "radius", "description">>
                         /\ solnSettings' = setSettings(s)
                         /\ pc' = "define"
                         /\ UNCHANGED <<stderr, exitStatus>>
                    ELSE /\ stderr' = Append(stderr, <<"Error:", "invalid radius", solutionName>>)
                         /\ usageOn(Append(stdout, "name"))
                         /\ UNCHANGED solnSettings
          ELSE /\ stdout' = stdout \o (IF s \in DOMAIN solnRadius
                                       THEN <<"name", "radius", "description">>
                                       ELSE <<"name", "description">>)
               /\ solnSettings' = setSettings(s)
               /\ pc' = "define"
               /\ UNCHANGED <<solnRadius, stderr, exitStatus>>
    /\ UNCHANGED <<stencils, solns, ctorCalls, ctorThrew, argi, opt, optVars,
                   defineLog, sinks, iter, eqs, emitted>>

\* stencilSoln->define() (line 414), which puts its equations into the
\* solution and returns, or throws; then the rest of parseOpts and
\* main's check of outfiles (lines 415-432).
Define(A) ==
    /\ pc = "define"
    /\ eqs' \in A.eqLists
    /\ \E ok \in BOOLEAN :
         IF ok
         THEN /\ defineLog' = Append(defineLog,
                    [soln |-> stencilSoln,
                     radius |-> IF stencilSoln \in DOMAIN solnRadius
                                THEN <<solnRadius[stencilSoln]>> ELSE <<>>,
                     settings |-> solnSettings[stencilSoln]])
              /\ stdout' = stdout \o <<"num_vars", "num_eqs">>
                             \o (IF DOMAIN outfiles = {} THEN <<"use_p">> ELSE <<>>)
              /\ iter' = 1
              /\ pc' = "emit"
              /\ UNCHANGED <<stderr, exitStatus>>
         ELSE /\ defineLog' = Append(defineLog,
                    [soln |-> stencilSoln,
                     radius |-> IF stencilSoln \in DOMAIN solnRadius
                                THEN <<solnRadius[stencilSoln]>> ELSE <<>>,
                     settings |-> solnSettings[stencilSoln]])
              /\ caught("define")
              /\ UNCHANGED iter
    /\ UNCHANGED <<registryVars, argi, opt, optVars, stencilSoln, solnSettings, sinks,
                   emitted>>

\* One pass of main's loop up to the format() call (lines 435-444):
\* the output object for the next format, in key order of outfiles.
\* new_file_output opens the file, or throws when it cannot.
OpenSink ==
    /\ pc = "emit"
    /\ iter <= Cardinality(DOMAIN outfiles)
    /\ LET type == SortedKeys(DOMAIN outfiles)[iter]
           fname == outfiles[type]
       IN \E ok \in (IF fname = "-" THEN {TRUE} ELSE BOOLEAN) :
            IF ok
            THEN /\ sinks' = Append(sinks, [type |-> type, fname |-> fname,
                                            soln |-> stencilSoln, state |-> "open"])
                 /\ pc' = "format"
                 /\ UNCHANGED <<stdout, stderr, exitStatus>>
            ELSE /\ caught("cannot open file")
                 /\ UNCHANGED sinks
    /\ UNCHANGED <<registryVars, argi, opt, optVars, stencilSoln, solnSettings,
                   defineLog, iter, eqs, emitted>>

\* What format(type) computes before it writes: the analysis and the
\* fold of the solution of this type, or the error it throws (always
\* for a type format() does not know).
formatOutcome(type) ==
    IF type \in FormatTypes
    THEN compile(eqs, solnSettings[stencilSoln], type)
    ELSE [err |-> "format", bundles |-> <<>>, fold |-> <<>>]

\* format(type, os) with outcome c on sink n: the output is written, or
\* the exception reaches main's handler.
formatWrites(n, type, c) ==
    \E ok \in (IF c.err = "" THEN BOOLEAN ELSE {FALSE}) :
        IF ok
        THEN /\ sinks' = [sinks EXCEPT ![n].state = "written"]
             /\ emitted' = Append(emitted, [type |-> type, bundles |-> c.bundles,
                                            fold |-> c.fold])
             /\ stdout' = IF sinks[n].fname = "-"
                          THEN Append(stdout, "format-output") ELSE stdout
             /\ iter' = iter + 1
             /\ pc' = "emit"
             /\ UNCHANGED <<stderr, exitStatus>>
        ELSE /\ caught(IF c.err = "" THEN "format" ELSE c.err)
             /\ UNCHANGED <<sinks, iter, emitted>>

\* stencilSoln->get_soln()->format(type, os) (line 445): analyzes and
\* folds the solution and writes the output, or throws (always for a
\* type format() does not know, and when the analyzer or folder fails).
Format ==
    /\ pc = "format"
    /\ LET n == Len(sinks)
       IN formatWrites(n, sinks[n].type, formatOutcome(sinks[n].type))
    /\ UNCHANGED <<registryVars, argi, opt, optVars, stencilSoln, solnSettings,
                   defineLog, eqs>>

\* The loop over outfiles is finished (lines 452-453).
Finish ==
    /\ pc = "emit"
    /\ iter > Cardinality(DOMAIN outfiles)
    /\ stdout' = Append(stdout, "done")
    /\ exitStatus' = 0
    /\ pc' = "done"
    /\ UNCHANGED <<registryVars, argi, opt, optVars, runVars, stderr>>

MainArgs ==
    [tokens |-> ArgTokens,
     values |-> [o \in ArgTokens |-> ArgValues(o)],
     files |-> FileTokens,
     maxArgc |-> MaxArgc,
     eqLists |-> {<<EqBarX>>}]

NextOver(A) ==
    \/ \E name \in SolnNames : Construct(name)
    \/ \E noArgs \in BOOLEAN : Main(noArgs)
    \/ ParseBreak(A)
    \/ ParseHelp(A)
    \/ ParseFlag(A)
    \/ ParseValueMissing(A)
    \/ ParseValueOpt(A)
    \/ ParsePrint(A)
    \/ ParsePrintNoFile(A)
    \/ ParseUnknownOpt(A)
    \/ NoSolution
    \/ UnknownStencil
    \/ SelectSolution
    \/ Define(A)
    \/ OpenSink
    \/ Format
    \/ Finish

Next == NextOver(MainArgs)

Spec == Init /\ [][Next]_vars

\* ------------------------------------------------------------- claims
Last(s) == s[Len(s)]

Terminated == pc \in {"done", "exited"}

\* The sinks whose format() returned, as (format, file) pairs, in order.
Emissions ==
    LET idx == {i \in 1..Len(sinks) : sinks[i].state = "written"}
    IN [i \in idx |-> <<sinks[i].type, sinks[i].fname>>]

\* How many entries of the sequence or function f equal x.
Count(f, x) == Cardinality({i \in DOMAIN f : f[i] = x})

\* C1: the process ends with status 0 only by main returning, and then no
\* error was reported, the named solution is registered, define() was
\* called once and returned, and every requested format is known and was
\* written to its file; every reported error ends the process with 1.
C1_ExitStatus ==
    /\ pc = "done" <=> exitStatus = 0
    /\ pc = "exited" <=> exitStatus = 1
    /\ stderr # <<>> => exitStatus = 1
    /\ exitStatus = 0 =>
         /\ stderr = <<>>
         /\ solutionName \in DOMAIN stencils
         /\ Len(defineLog) = 1
         /\ Len(sinks) = Cardinality(DOMAIN outfiles)
         /\ \A k \in DOMAIN outfiles :
              /\ k \in FormatTypes
              /\ \E i \in 1..Len(sinks) :
                   /\ sinks[i].type = k
                   /\ sinks[i].fname = outfiles[k]
                   /\ sinks[i].state = "written"

\* A run that returned 0 after writing two formats.
C1_Witness == pc = "done" /\ exitStatus = 0 /\ Len(sinks) = 2

\* C2: a successful run given n -p pairs made exactly n emissions, one per
\* pair with that pair's format and file; stated for command lines whose
\* pairs name different files (the case of one FORMAT with two FILEs).
C2_OneEmissionPerPair ==
    (/\ pc = "done"
     /\ \A i, j \in 1..Len(printArgs) : printArgs[i][2] = printArgs[j][2] => i = j) =>
        /\ Cardinality(DOMAIN Emissions) = Len(printArgs)
        /\ \A i \in 1..Len(printArgs) :
             Count(Emissions, printArgs[i]) = Count(printArgs, printArgs[i])

\* C3: a run that ended in an error has opened and written no output file.
C3_NoPartialOutput ==
    pc = "exited" => \A i \in 1..Len(sinks) : sinks[i].fname = "-"

\* C4: define() is called at most once, after parsing is over and with the
\* settings as every option left them (they never change afterwards), and
\* a sink is opened only after define() was called and did not throw.
C4_PhaseOrder ==
    /\ Len(defineLog) <= 1
    /\ pc \in {"static_init", "parse", "resolve", "define"} =>
         defineLog = <<>> /\ sinks = <<>>
    /\ defineLog # <<>> =>
         /\ defineLog[1].settings = settings
         /\ solnSettings[stencilSoln] = settings
    /\ sinks # <<>> =>
         /\ defineLog # <<>>
         /\ \A i \in 1..Len(stderr) : stderr[i] # <<ToolName, "define">>

\* define() has run with settings an option changed, and a sink is open.
C4_Witness ==
    /\ pc = "format"
    /\ defineLog # <<>>
    /\ settings._elem_bytes = 8
    /\ settings._firstInner

\* C5: without a registered -stencil name the run ends with status 1, no
\* define() and no sink, with an error message unless help ended it first;
\* define() and format() only ever run on the registry's entry for the name.
C5_StencilRequired ==
    /\ (Terminated /\ solutionName \notin DOMAIN stencils) =>
         /\ exitStatus = 1
         /\ defineLog = <<>>
         /\ sinks = <<>>
         /\ stderr # <<>> \/ opt \in HelpOpts \/ argi = 0
    /\ (pc \in {"define", "emit", "format", "done"} \/ defineLog # <<>> \/ sinks # <<>>) =>
         /\ solutionName \in DOMAIN stencils
         /\ stencilSoln = stencils[solutionName]
         /\ solns[stencilSoln] = solutionName
         /\ \A i \in 1..Len(defineLog) : defineLog[i].soln = stencils[solutionName]
         /\ \A i \in 1..Len(sinks) : sinks[i].soln = stencils[solutionName]

\* Both solutions are registered and the one named second was emitted.
C5_Witness ==
    /\ Cardinality(DOMAIN stencils) = 2
    /\ sinks # <<>>
    /\ stencilSoln = 2
    /\ sinks[1].state = "written"

\* C6 as stated: every error message carries the tool name.
C6_ErrorsPrefixed ==
    \A i \in 1..Len(stderr) : stderr[i][1] = ToolName

\* C6 amended: an error message is either an option error, which starts
\* "Error:" and is followed by the help text on stdout, or the message of
\* an exception caught in main, which starts with the tool name and is not
\* followed by help; whatever goes wrong once define() is called is of the
\* second kind; an exit(1) without a message is a request for help.
C6_ErrorChannels ==
    /\ Len(stderr) <= 1
    /\ \A i \in 1..Len(stderr) :
         \/ stderr[i][1] = "Error:" /\ Last(stdout) = "help" /\ defineLog = <<>>
         \/ stderr[i][1] = ToolName /\ Last(stdout) # "help"
    /\ (defineLog # <<>> /\ stderr # <<>>) => stderr[1][1] = ToolName
    /\ (pc = "exited" /\ stderr = <<>>) =>
         Last(stdout) = "help" /\ (opt \in HelpOpts \/ argi = 0)

\* An option error: "Error:" on stderr, the help text on stdout.
C6_Witness ==
    /\ pc = "exited"
    /\ stderr = <<<<"Error:", "unknown stencil solution", "nope">>>>
    /\ Last(stdout) = "help"

\* C7: when -radius gave a value and define() is about to be called on a
\* solution with a radius, that solution's radius is the value given.
C7_RadiusApplied ==
    (pc = "define" /\ radius # -1 /\ stencilSoln \in DOMAIN solnRadius) =>
        solnRadius[stencilSoln] = radius

\* C8: the registry maps each name to one solution of that name, a
\* construction under a registered name throws and changes nothing, one
\* under a fresh name adds that entry and one solution, and nothing
\* changes the registry once main() has started.
C8_Registry ==
    /\ [](\A n \in DOMAIN stencils :
             stencils[n] \in DOMAIN solns /\ solns[stencils[n]] = n)
    /\ [](Cardinality(DOMAIN solns) = Cardinality(DOMAIN stencils))
    /\ [][\A name \in SolnNames : Construct(name) =>
             IF name \in DOMAIN stencils
             THEN ctorThrew' /\ stencils' = stencils /\ solns' = solns
             ELSE /\ ~ctorThrew'
                  /\ DOMAIN stencils' = DOMAIN stencils \cup {name}
                  /\ \A n \in DOMAIN stencils : stencils'[n] = stencils[n]
                  /\ Cardinality(DOMAIN solns') = Cardinality(DOMAIN solns) + 1]_vars
    /\ [][pc # "static_init" => stencils' = stencils /\ solns' = solns]_vars

\* A construction under a registered name threw, and the driver then ran.
C8_Witness ==
    /\ ctorThrew
    /\ ctorCalls = 2
    /\ Cardinality(DOMAIN stencils) = 1
    /\ pc = "done"

\* C9: once the parser has read -h, -help or --help as an option, or main
\* was started without arguments, the help text is the last output, the
\* process has exited with status 1, and define() and format() never ran.
C9_HelpExits ==
    (opt \in HelpOpts \/ (pc # "static_init" /\ argi = 0)) =>
        /\ pc = "exited"
        /\ exitStatus = 1
        /\ Last(stdout) = "help"
        /\ stderr = <<>>
        /\ defineLog = <<>>
        /\ sinks = <<>>

\* -h read after a valid -stencil and a valid -p pair.
C9_Witness ==
    /\ opt = "-h"
    /\ solutionName \in DOMAIN stencils
    /\ DOMAIN outfiles # {}
    /\ pc = "exited"

\* C10: an -elem-bytes value other than 4 or 8 is never stored in the
\* settings of a run that goes on to call define().
C10_ElemBytesChecked ==
    pc = "define" =>
        /\ settings._elem_bytes \in {4, 8}
        /\ solnSettings[stencilSoln]._elem_bytes \in {4, 8}

\* ------------------------------------------------ other command lines
\* The state main() starts in when the two solutions have registered
\* during static initialization.
InitRegistered ==
    /\ pc = "static_init"
    /\ stencils = ("awp" :> 1) @@ ("iso" :> 2)
    /\ solns = (1 :> "awp") @@ (2 :> "iso")
    /\ solnRadius = (2 :> DefaultRadius)
    /\ ctorCalls = 2
    /\ ctorThrew = FALSE
    /\ argi = 0
    /\ opt = ""
    /\ settings = DefaultSettings
    /\ outfiles = <<>>
    /\ solutionName = ""
    /\ radius = -1
    /\ vlenForStats = 0
    /\ stencilSoln = 0
    /\ solnSettings = <<>>
    /\ defineLog = <<>>
    /\ sinks = <<>>
    /\ iter = 0
    /\ eqs = <<>>
    /\ emitted = <<>>
    /\ printArgs = <<>>
    /\ stdout = <<>>
    /\ stderr = <<>>
    /\ exitStatus = -1

\* main() and all it calls, over the command lines of A.
NextMain(A) ==
    \/ \E noArgs \in BOOLEAN : Main(noArgs)
    \/ ParseBreak(A)
    \/ ParseHelp(A)
    \/ ParseFlag(A)
    \/ ParseValueMissing(A)
    \/ ParseValueOpt(A)
    \/ ParsePrint(A)
    \/ ParsePrintNoFile(A)
    \/ ParseUnknownOpt(A)
    \/ NoSolution
    \/ UnknownStencil
    \/ SelectSolution
    \/ Define(A)
    \/ OpenSink
    \/ Format
    \/ Finish

\* Command lines that steer the bundler, over every list of equations.
BundleTokens == {"-stencil", "-no-find-deps", "-eq-bundles", "-p", "-h", "-zz", "-"}

BundleValues(o) ==
    CASE o = "-stencil" -> {"awp", "nope"}
      [] o = "-eq-bundles" -> {"g_$&=b[aeiou]r", "a=bar,b=b[aeiou]r"}
      [] o = "-p" -> {"pseudo"}
      [] OTHER -> {}

BundleArgs ==
    [tokens |-> BundleTokens,
     values |-> [o \in BundleTokens |-> BundleValues(o)],
     files |-> {"-"},
     maxArgc |-> MaxArgc,
     eqLists |-> EqLists(MaxEqs)]

NextBundle == NextMain(BundleArgs)

SpecBundle == InitRegistered /\ [][NextBundle]_vars

\* Command lines that steer the folder, for a one-equation solution.
FoldTokens == {"-stencil", "-fold", "-domain-dims", "-elem-bytes", "-fus", "-p", "-h", "-zz", "-"}

FoldValues(o) ==
    CASE o = "-stencil" -> {"awp", "nope"}
      [] o = "-fold" -> {"x=4,y=4", "x=-2,y=-4", "x=3"}
      [] o = "-domain-dims" -> {"y,x"}
      [] o = "-elem-bytes" -> {"8"}
      [] o = "-p" -> {"avx2", "avx512", "cpp"}
      [] OTHER -> {}

FoldArgs ==
    [tokens |-> FoldTokens,
     values |-> [o \in FoldTokens |-> FoldValues(o)],
     files |-> {"-"},
     maxArgc |-> MaxArgc,
     eqLists |-> {<<EqBarX>>}]

NextFold == NextMain(FoldArgs)

SpecFold == InitRegistered /\ [][NextFold]_vars

\* Command lines over all the boolean flags.
FlagArgTokens == NoValueOpts \cup {"-stencil", "-p", "-h", "-zz", "-"}

FlagArgValues(o) ==
    CASE o = "-stencil" -> {"awp", "-lus"}
      [] o = "-p" -> {"cpp"}
      [] OTHER -> {}

FlagArgs ==
    [tokens |-> FlagArgTokens,
     values |-> [o \in FlagArgTokens |-> FlagArgValues(o)],
     files |-> {"-"},
     maxArgc |-> MaxFlagArgc,
     eqLists |-> {<<EqBarX>>}]

NextFlags == NextMain(FlagArgs)

SpecFlags == InitRegistered /\ [][NextFlags]_vars

\* ---------------------------------------------------- bundler claims
\* The number of bundles of bs that hold equation e.
Holders(bs, e) ==
    Cardinality({b \in 1..Len(bs) : \E k \in 1..Len(bs[b].eqs) : bs[b].eqs[k] = e})

\* C11: in the bundles of every output written, no equation of a bundle
\* depends on another equation of the same bundle, every equation of
\* the solution is in one bundle, and two equations one of which
\* depends on the other are in different bundles.
C11_BundleIndependence ==
    \A n \in 1..Len(emitted) :
        LET bs == emitted[n].bundles IN
        /\ \A b \in 1..Len(bs) : \A i, j \in 1..Len(bs[b].eqs) :
               i # j => ~Depends(bs[b].eqs[i], bs[b].eqs[j])
        /\ \A i \in 1..Len(eqs) : Holders(bs, eqs[i]) = 1
        /\ \A i, j \in 1..Len(eqs) :
               Depends(eqs[i], eqs[j]) =>
                  ~\E b \in 1..Len(bs) : \E k, l \in 1..Len(bs[b].eqs) :
                       bs[b].eqs[k] = eqs[i] /\ bs[b].eqs[l] = eqs[j]

\* An output whose bundles include one of two equations and two
\* numbered bundles of one base name, one depending on the other.
C11_Witness ==
    \E n \in 1..Len(emitted) :
        LET bs == emitted[n].bundles IN
        /\ \E b \in 1..Len(bs) : Len(bs[b].eqs) >= 2
        /\ \E b, c \in 1..Len(bs) :
               /\ bs[b].base = bs[c].base
               /\ bs[b].index # bs[c].index
               /\ BundleDepends(bs[c], bs[b])

\* The order puts every bundle after the bundles it depends on.
Sound(bs) ==
    \A i, j \in 1..Len(bs) : i # j /\ BundleDepends(bs[j], bs[i]) => i < j

\* A bundle placed before one of a lesser name is one the lesser-named
\* bundle had to wait for, directly or through a bundle between them.
TieBroken(bs) ==
    \A i, j \in 1..Len(bs) :
        i < j /\ BundleLess(bs[j], bs[i]) =>
            \E k \in i..Len(bs) : k # j /\ BundleDepends(bs[j], bs[k])

\* The bundles of the solution before they are ordered.
Unordered ==
    assignBundles(<<>>, eqs, 1,
                  parseList(solnSettings[stencilSoln]._eqBundleTargets),
                  Chars(solnSettings[stencilSoln]._eq_bundle_basename_default),
                  solnSettings[stencilSoln]._findDeps)

\* No order of the bundles bs is sound: the inter-bundle graph has a cycle.
HasCycle(bs) ==
    \A p \in {q \in [1..Len(bs) -> 1..Len(bs)] :
                \A i, j \in 1..Len(bs) : q[i] = q[j] => i = j} :
        ~Sound([i \in 1..Len(bs) |-> bs[p[i]]])

CycleReported ==
    pc = "exited" /\ stderr # <<>> /\ Last(stderr) = <<ToolName, "DependencyCycleError">>

Stem(var) == SubSeq(Chars(var), 1, 3)

\* The base name usage() promises an update to var under the modelled
\* -eq-bundles values.
ExpectedBase(targets, var) ==
    CASE targets = "" -> Chars("stencil_bundle")
      [] targets = "g_$&=b[aeiou]r" -> <<"g", "_">> \o Stem(var)
      [] targets = "a=bar,b=b[aeiou]r" ->
            IF Stem(var) = <<"b", "a", "r">> THEN <<"a">> ELSE <<"b">>

\* The vars the equations of a bundle update.
BundleVars(b) == {b.eqs[k].lhs.var : k \in 1..Len(b.eqs)}

\* C13: in every output written, each equation is in one bundle, whose
\* base name is the template of the first -eq-bundles target found in
\* the name of the var it updates, with $& replaced by the text found,
\* or the default base name; with 'g_$&=b[aeiou]r' and independent
\* updates of bar_x, bar_y, ber_x and ber_y the bundles are g_bar_0 with
\* the updates of bar_x and bar_y and g_ber_0 with those of ber_x and
\* ber_y.
C13_BundleTargets ==
    \A n \in 1..Len(emitted) :
        LET bs == emitted[n].bundles
            s == solnSettings[stencilSoln]
        IN /\ \A i \in 1..Len(eqs) : Holders(bs, eqs[i]) = 1
           /\ \A b \in 1..Len(bs) : \A k \in 1..Len(bs[b].eqs) :
                  bs[b].base = ExpectedBase(s._eqBundleTargets, bs[b].eqs[k].lhs.var)
           /\ \A b, c \in 1..Len(bs) :
                  bs[b].base = bs[c].base /\ bs[b].index = bs[c].index => b = c
           /\ ( /\ s._eqBundleTargets = "g_$&=b[aeiou]r"
                /\ s._findDeps
                /\ Len(eqs) = 4
                /\ \A i, j \in 1..Len(eqs) : ~Depends(eqs[i], eqs[j]) )
              => {<<bs[b].base, bs[b].index, BundleVars(bs[b])>> : b \in 1..Len(bs)}
                   = {<<<<"g", "_", "b", "a", "r">>, 0, {"bar_x", "bar_y"}>>,
                      <<<<"g", "_", "b", "e", "r">>, 0, {"ber_x", "ber_y"}>>}

\* The output of the example: bundles g_bar_0 and g_ber_0 of two
\* updates each, made with -eq-bundles 'g_$&=b[aeiou]r'.
C13_Witness ==
    \E n \in 1..Len(emitted) :
        LET bs == emitted[n].bundles IN
        /\ solnSettings[stencilSoln]._eqBundleTargets = "g_$&=b[aeiou]r"
        /\ Len(bs) = 2
        /\ \E b, c \in 1..2 :
               /\ bs[b].base = <<"g", "_", "b", "a", "r">> /\ bs[b].index = 0
               /\ BundleVars(bs[b]) = {"bar_x", "bar_y"}
               /\ bs[c].base = <<"g", "_", "b", "e", "r">> /\ bs[c].index = 0
               /\ BundleVars(bs[c]) = {"ber_x", "ber_y"}

\* ----------------------------------------------------- folder claims
\* The length -fold gave for dimension d, 1 when it gave none.
GivenLen(s, d) ==
    IF \E k \in 1..Len(s._foldOptions) : s._foldOptions[k].dim = d
    THEN LET k == CHOOSE k \in 1..Len(s._foldOptions) : s._foldOptions[k].dim = d
         IN s._foldOptions[k].val
    ELSE 1

ReadsFlag(o) == pc = "parse" /\ opt' = o /\ argi' = argi + 1

\* C15: each flag read at option position sets the setting of its pair
\* to what it selects and leaves every other setting as it was, no
\* other step of the program changes a setting of a flag pair, and the
\* settings start from their defaults; so after parsing each such
\* setting has the value selected by the last occurrence of its flag,
\* or its default when the flag never occurred.
C15_FlagPairs ==
    /\ settings = DefaultSettings
    /\ [][ /\ \A p \in FlagPairs :
                  /\ ReadsFlag(p.on) =>
                        settings' = [settings EXCEPT ![p.field] = TRUE]
                  /\ ReadsFlag(p.off) =>
                        settings' = [settings EXCEPT ![p.field] = FALSE]
                  /\ settings'[p.field] # settings[p.field] =>
                        ReadsFlag(p.on) \/ ReadsFlag(p.off)
          ]_vars
    /\ [](\A p \in FlagPairs :
             /\ (pc \in {"parse", "resolve"} /\ opt = p.on) => settings[p.field]
             /\ (pc \in {"parse", "resolve"} /\ opt = p.off) => ~settings[p.field]
             /\ \A n \in 1..Len(defineLog) :
                    defineLog[n].settings[p.field] = settings[p.field])

\* define() is called with a cleared setting that is on by default and
\* a set one that is off by default, the last flag read having restored
\* a default.
C15_Witness ==
    /\ pc = "define"
    /\ ~settings._doCse
    /\ settings._firstInner
    /\ opt = "-no-ul"
    /\ settings._allowUnalignedLoads = DefaultSettings._allowUnalignedLoads

\* ---------------------------------------------------- emission order
\* a is before b in lexicographic order of character codes.
LexBefore(a, b) ==
    LET ca == Chars(a)
        cb == Chars(b)
    IN \E i \in 1..(Len(cb)) :
          /\ \A j \in 1..(i - 1) : j <= Len(ca) /\ ca[j] = cb[j]
          /\ \/ i = Len(ca) + 1
             \/ i <= Len(ca) /\ Ascii(ca[i]) < Ascii(cb[i])

\* C17: the outputs are made in ascending lexicographic order of their
\* format tags, none of the requested formats before the one being
\* made is left out, each goes to the file its -p pair named, and
\* format() is called in the same order; so the sequence of emissions
\* is fixed by the set of -p pairs, whatever their order in argv.
C17_EmissionOrder ==
    /\ \A i, j \in 1..Len(sinks) :
           i < j => LexBefore(sinks[i].type, sinks[j].type)
    /\ \A i \in 1..Len(sinks) :
           /\ sinks[i].type \in DOMAIN outfiles
           /\ sinks[i].fname = outfiles[sinks[i].type]
           /\ \A k \in DOMAIN outfiles :
                  LexBefore(k, sinks[i].type) =>
                     \E j \in 1..(i - 1) : sinks[j].type = k
    /\ (\A i, j \in 1..Len(printArgs) :
            printArgs[i][1] = printArgs[j][1] => i = j)
         => /\ DOMAIN outfiles = {printArgs[i][1] : i \in 1..Len(printArgs)}
            /\ \A i \in 1..Len(sinks) :
                   \E k \in 1..Len(printArgs) :
                      printArgs[k] = <<sinks[i].type, sinks[i].fname>>
    /\ Len(emitted) <= Len(sinks)
    /\ \A n \in 1..Len(emitted) : emitted[n].type = sinks[n].type

\* A finished run given "-p cpp FILE" before "-p avx FILE" that wrote
\* avx first and cpp second.
C17_Witness ==
    /\ pc = "done"
    /\ Len(printArgs) = 2
    /\ printArgs[1][1] = "cpp"
    /\ printArgs[2][1] = "avx"
    /\ Len(sinks) = 2
    /\ sinks[1].type = "avx" /\ sinks[1].state = "written"
    /\ sinks[2].type = "cpp" /\ sinks[2].state = "written"
    /\ Len(emitted) = 2

=============================================================================
